---- MODULE Spec2Model ----
(***************************************************************************)
(* The deployment script scripts/deployLogic.ts: deploy() deploys or       *)
(* attaches the Krystal contracts and then reconciles their on-chain       *)
(* configuration with the per-network configuration record.                *)
(*                                                                         *)
(* One run of deploy() is a sequential program; its position is pc (with   *)
(* a stack of return positions for updateAddressSet and printInfo).  The   *)
(* chain is the environment: the value of a contract slot the script has   *)
(* neither read nor written is not determined by the script, so it is      *)
(* fixed at the first read (known records the slots fixed so far).         *)
(***************************************************************************)
EXTENDS Integers, Sequences, FiniteSets, TLC

\* ------------------------------------------------------------------ bounds
MaxLen == 2
MaxRuns == 2

\* ------------------------------------------------------- program constants
AddrBytes == 20
SliceStart == 2
SliceEnd == 40

\* --------------------------------------------------------- address strings
\* A string holding an address is its 20-byte value (id) and the letter case
\* it is written in; "undefined" and "" are the two falsy values.
Forms == {"lower", "checksum"}

Addr(id, form) == [id |-> id, form |-> form]

UndefinedAddr == Addr(<<"undefined", 0>>, "undefined")

EmptyString == Addr(<<"", 0>>, "empty")

zeroAddress == Addr(<<"zero", 0>>, "lower")

\* JS truthiness of a string | undefined
Truthy(a) == a.form \in Forms

\* the comparison without the lower-casing
toLowerCase_asIs(a) == a

\* String.prototype.toLowerCase
toLowerCase(a) == IF a.form \in Forms THEN [a EXCEPT !.form = "lower"] ELSE a

\* Array.prototype.map((r) => r.toLowerCase())
MapLower(list) == [i \in DOMAIN list |-> toLowerCase(list[i])]

\* Array.prototype.includes
Includes(list, add) == \E i \in DOMAIN list : list[i] = add

\* The 20-byte values a list of strings denotes (what the contract decodes).
Ids(list) == {list[i].id : i \in DOMAIN list}

\* ethers returns an address[] as checksummed strings, in the contract's order.
RECURSIVE SetToSeq(_)
SetToSeq(S) ==
  IF S = {} THEN <<>>
  ELSE LET x == CHOOSE y \in S : TRUE IN <<Addr(x, "checksum")>> \o SetToSeq(S \ {x})

\* The characters of a string: "0x" and the 2 * 20 hex digits.
HexLen == 2 * AddrBytes

Chars(a) ==
  <<"0", "x">> \o
  [i \in 1..HexLen |->
     IF i = HexLen THEN ToString(a.id) ELSE IF a.form = "lower" THEN "a" ELSE "A"]

\* String.prototype.slice(start, end), 0-based, end exclusive
Slice(s, start, end) ==
  SubSeq(s, start + 1, IF end < Len(s) THEN end ELSE Len(s))

\* ---------------------------------------------------------------- contracts
\* KrystalContracts: the fields of the record deployContracts returns.
SwapNames == <<"uniSwap", "uniSwapV3", "kyberProxy", "kyberDmm">>

LendingNames == <<"compoundLending", "aaveV1", "aaveV2", "aaveAMM">>

\* a deployContracts that deploys the proxy first
DeployOrder_proxyFirst ==
  <<"smartWalletProxy", "smartWalletImplementation", "fetchTokenBalances",
    "fetchAaveDataWrapper">> \o SwapNames \o LendingNames

\* the order of the deployContract calls in deployContracts
DeployOrder ==
  <<"smartWalletImplementation", "fetchTokenBalances", "fetchAaveDataWrapper">>
  \o SwapNames \o LendingNames \o <<"smartWalletProxy">>

Names == {DeployOrder[i] : i \in DOMAIN DeployOrder}

Protocols == {SwapNames[i] : i \in DOMAIN SwapNames}
               \cup {LendingNames[i] : i \in DOMAIN LendingNames}

\* merged = {...swapContracts, ...lendingContracts}
Merged == SwapNames \o LendingNames

Group(name) ==
  IF name \in {SwapNames[i] : i \in DOMAIN SwapNames} THEN "swapContracts."
  ELSE IF name \in {LendingNames[i] : i \in DOMAIN LendingNames} THEN "lendingContracts."
  ELSE ""

\* the key under which the returned record (and its summary) holds a contract
SummaryKey(name) == Group(name) \o name

\* the key of existingContract that deployContracts reads for a contract
ExistingKey(name) ==
  Group(name) \o
  (CASE name = "aaveV1" -> "aaveV1Lending"
     [] name = "aaveV2" -> "aaveV2Lending"
     [] name = "aaveAMM" -> "aaveAMMLending"
     [] OTHER -> name)

Keys == {SummaryKey(n) : n \in Names} \cup {ExistingKey(n) : n \in Names}

\* existingContract?.[...]?.[...]: a missing key (and an undefined record)
\* reads as undefined
NoExisting == [k \in Keys |-> UndefinedAddr]

\* convertToAddressObject(deployedContracts)
convertToAddressObject(obj) ==
  [k \in Keys |->
     IF \E n \in Names : SummaryKey(n) = k
     THEN obj[CHOOSE n \in Names : SummaryKey(n) = k]
     ELSE UndefinedAddr]

\* ----------------------------------------------------------------- inputs
deployerAddress == Addr(<<"deployer", 0>>, "checksum")

safeAddress == Addr(<<"safe", 0>>, "checksum")

\* wallet and router addresses the configuration and the chain may hold
AddrIds == {<<"addr", 1>>, <<"addr", 2>>, <<"addr", 3>>}

AddrStrings == {Addr(id, f) : id \in AddrIds, f \in Forms}

AddrLists == UNION {[1..n -> AddrStrings] : n \in 0..MaxLen}

DefaultList == <<Addr(<<"addr", 1>>, "checksum"), Addr(<<"addr", 2>>, "lower")>>

\* an address a slot may hold that is none of the desired ones
OtherId == <<"other", 0>>

\* NetworkConfig[network.name]; protocols are the optional entries present.
\* The three address lists are drawn together.
Config(auto, protos, list) ==
  [autoVerifyContract |-> auto,
   protocols |-> protos,
   supportedWallets |-> list,
   uniswapRouters |-> list,
   uniswapV3Routers |-> list,
   kyberProxyProxy |-> Addr(<<"kyberNetworkProxy", 0>>, "checksum"),
   kyberDmmRouter |-> Addr(<<"dmmRouter", 0>>, "checksum"),
   compTroller |-> Addr(<<"comptroller", 0>>, "lower")]

ProtocolSets == {{}} \cup {{p} : p \in Protocols} \cup {Protocols}

\* existingContract as a caller may write it: nothing, or one contract that
\* exists already, under the key the script reads, in either letter case or
\* as an empty string
ExistingRecords ==
  {NoExisting} \cup
  {[NoExisting EXCEPT ![ExistingKey(n)] =
       IF f = "empty" THEN EmptyString ELSE Addr(<<n, 0>>, f)] :
     n \in Names, f \in Forms \cup {"empty"}}

Input(cfg, ex, ms) == [networkConfig |-> cfg, existingContract |-> ex, multisig |-> ms]

ListInputs ==
  {Input(Config(FALSE, {"uniSwap", "uniSwapV3"}, l), NoExisting, UndefinedAddr) :
     l \in AddrLists}

ContractInputs ==
  {Input(Config(auto, ps, DefaultList), ex, ms) :
     auto \in BOOLEAN, ps \in ProtocolSets, ex \in ExistingRecords,
     ms \in {UndefinedAddr, safeAddress}}

Inputs == ListInputs \cup ContractInputs

\* ------------------------------------------------------------------ state
VARIABLES
  networkConfig, multisig, existingContract,   \* the inputs of a run
  run,                                         \* number of the deploy() call
  pc, stack, idx, failed,                      \* position in deploy()
  deployedContracts, result, summary,          \* contract addresses held
  sets, vals, known,                           \* the chain
  pending,                                     \* submitted, not yet confirmed
  existing, config, toBeRemoved, toBeAdded, populateFunc,  \* locals
  current, desired,                            \* value read, value wanted
  onChain,                                     \* the set as it was when read
  step, emitted, populated,                    \* what the current step sent
  origin, deployTxs, verified, verifyLog       \* what deployContract did

vars ==
  <<networkConfig, multisig, existingContract, run, pc, stack, idx, failed,
    deployedContracts, result, summary, sets, vals, known, pending,
    existing, config, toBeRemoved, toBeAdded, populateFunc, current, desired,
    onChain, step, emitted, populated, origin, deployTxs, verified, verifyLog>>

inputVars == <<networkConfig, multisig, existingContract, run>>

chainVars == <<sets, vals, known>>

localVars ==
  <<existing, config, toBeRemoved, toBeAdded, populateFunc, current, desired, onChain>>

deployVars == <<origin, deployTxs, verified, verifyLog>>

SetSlots == {"wallets", "swaps", "lendings", "uniRouters", "uniV3Routers"}

ValSlots ==
  {"implementation", "kyberProxy", "dmmRouter", "comptroller"}
  \cup {"proxyContract." \o n : n \in Protocols}
  \cup {"aaveData." \o n : n \in {"aaveV1", "aaveV2", "aaveAMM"}}

\* the slots a contract holds
SlotsOf(name) ==
  (IF name \in Protocols THEN {"proxyContract." \o name} ELSE {})
  \cup
  (CASE name = "smartWalletProxy" -> {"implementation", "wallets", "swaps", "lendings"}
     [] name = "uniSwap" -> {"uniRouters"}
     [] name = "uniSwapV3" -> {"uniV3Routers"}
     [] name = "kyberProxy" -> {"kyberProxy"}
     [] name = "kyberDmm" -> {"dmmRouter"}
     [] name = "compoundLending" -> {"comptroller"}
     [] name \in {"aaveV1", "aaveV2", "aaveAMM"} -> {"aaveData." \o name}
     [] OTHER -> {})

NoContracts == [n \in Names |-> UndefinedAddr]

NoPopulate == [to |-> "", method |-> ""]

StartOfRun ==
  /\ pc = "deployContracts"
  /\ stack = <<>>
  /\ idx = 1
  /\ failed = FALSE
  /\ deployedContracts = NoContracts
  /\ result = <<>>
  /\ pending = {}
  /\ existing = <<>>
  /\ config = <<>>
  /\ toBeRemoved = <<>>
  /\ toBeAdded = <<>>
  /\ populateFunc = NoPopulate
  /\ current = UndefinedAddr
  /\ desired = UndefinedAddr
  /\ onChain = {}
  /\ step = "none"
  /\ emitted = <<>>
  /\ populated = 0
  /\ origin = [n \in Names |-> "none"]
  /\ deployTxs = [n \in Names |-> 0]
  /\ verified = [n \in Names |-> 0]
  /\ verifyLog = "none"

Init ==
  /\ \E in \in Inputs :
       /\ networkConfig = in.networkConfig
       /\ existingContract = in.existingContract
       /\ multisig = in.multisig
  /\ run = 1
  /\ summary = NoExisting
  /\ sets = [s \in SetSlots |-> {}]
  /\ vals = [s \in ValSlots |-> OtherId]
  /\ known = {}
  /\ StartOfRun

\* ------------------------------------------------------------ transactions
Txn(kind, to, method, args, flag) ==
  [kind |-> kind, to |-> to, method |-> method, args |-> args, flag |-> flag,
   via |-> "none", n |-> 0]

\* executeTxn without the multisig branch
executeTxn_signer(txn) == <<[txn EXCEPT !.via = "signer"]>>

\* executeTxn: the transactions it sends for one populated transaction: one,
\* through the Safe when multisig is set, else by the signer
executeTxn(txn) ==
  IF Truthy(multisig)
  THEN <<[txn EXCEPT !.via = "safe"]>>
  ELSE <<[txn EXCEPT !.via = "signer"]>>

\* const tx = await executeTxn(await populate...(...)); ... await printInfo(tx);
\* sent are the transactions the step sent before, count those it populated,
\* stk the positions to continue at once printInfo returns
Submit(sent, count, txn, stk) ==
  LET txs == executeTxn(txn)
      numbered == [i \in DOMAIN txs |-> [txs[i] EXCEPT !.n = Len(sent) + i]]
  IN /\ populated' = count + 1
     /\ emitted' = sent \o numbered
     /\ pending' = pending \cup {numbered[i] : i \in DOMAIN numbered}
     /\ pc' = "printInfo"
     /\ stack' = stk

\* the branch that logs "already up-to-date" / "nothing to be ..."
NoSubmit(sent, count, next, stk) ==
  /\ populated' = count
  /\ emitted' = sent
  /\ pending' = pending
  /\ pc' = next
  /\ stack' = stk

\* the slot of the target contract an update method writes
SetSlotOf(tx) ==
  CASE tx.method = "updateSupportedPlatformWallets" -> "wallets"
    [] tx.method = "updateSupportedSwaps" -> "swaps"
    [] tx.method = "updateSupportedLendings" -> "lendings"
    [] tx.method = "updateUniRouters" /\ tx.to = "uniSwap" -> "uniRouters"
    [] tx.method = "updateUniRouters" /\ tx.to = "uniSwapV3" -> "uniV3Routers"
    [] OTHER -> "none"

ValSlotOf(tx) ==
  CASE tx.method = "updateNewImplementation" -> "implementation"
    [] tx.method = "updateProxyContract" -> "proxyContract." \o tx.to
    [] tx.method = "updateKyberProxy" -> "kyberProxy"
    [] tx.method = "updateDmmRouter" -> "dmmRouter"
    [] tx.method = "updateCompoundData" -> "comptroller"
    [] tx.method = "updateAaveData" -> "aaveData." \o tx.to
    [] OTHER -> "none"

\* what a confirmed update transaction does to the target contract: a set
\* method adds the given addresses when called with true and removes them
\* when called with false; a setter stores its first argument
EffectSets(tx, ss) ==
  IF SetSlotOf(tx) = "none" THEN ss
  ELSE [ss EXCEPT ![SetSlotOf(tx)] =
          IF tx.flag THEN @ \cup Ids(tx.args) ELSE @ \ Ids(tx.args)]

EffectVals(tx, vs) ==
  IF ValSlotOf(tx) = "none" THEN vs
  ELSE [vs EXCEPT ![ValSlotOf(tx)] = tx.args[1].id]

\* printInfo without the await of tx.wait(1)
printInfo_unawaited ==
  /\ pc = "printInfo"
  /\ LET tx == emitted[Len(emitted)] IN
       /\ sets' = EffectSets(tx, sets)
       /\ vals' = EffectVals(tx, vals)
       /\ known' = known \cup ({ValSlotOf(tx)} \ {"none"})
  /\ pc' = Head(stack)
  /\ stack' = Tail(stack)
  /\ UNCHANGED <<inputVars, idx, failed, deployedContracts, result, summary, pending,
                 localVars, step, emitted, populated, deployVars>>

\* printInfo: await tx.wait(1), after which the transaction has taken effect
printInfo ==
  /\ pc = "printInfo"
  /\ LET tx == emitted[Len(emitted)] IN
       /\ pending' = pending \ {tx}
       /\ sets' = EffectSets(tx, sets)
       /\ vals' = EffectVals(tx, vals)
       /\ known' = known \cup ({ValSlotOf(tx)} \ {"none"})
  /\ pc' = Head(stack)
  /\ stack' = Tail(stack)
  /\ UNCHANGED <<inputVars, idx, failed, deployedContracts, result, summary,
                 localVars, step, emitted, populated, deployVars>>

\* ---------------------------------------------------------- deployContracts
\* a deployContracts without the !networkConfig.<protocol> tests
Configured_always(name) == TRUE

\* !networkConfig.<protocol>: the optional entry of the protocol is present
Configured(name) == name \notin Protocols \/ name \in networkConfig.protocols

\* Object.values(contracts).filter((c) => c).map((c) => c.address)
Addresses(names) ==
  LET all == [i \in DOMAIN names |-> deployedContracts[names[i]]]
  IN SelectSeq(all, Truthy)

contractAdmin == IF Truthy(multisig) THEN multisig ELSE deployerAddress

\* ...args of deployContract
CtorArgs(name) ==
  <<contractAdmin>> \o
  (CASE name = "uniSwap" -> networkConfig.uniswapRouters
     [] name = "uniSwapV3" -> networkConfig.uniswapV3Routers
     [] name = "kyberProxy" -> <<networkConfig.kyberProxyProxy>>
     [] name = "kyberDmm" -> <<networkConfig.kyberDmmRouter>>
     [] name = "smartWalletProxy" ->
          <<deployedContracts["smartWalletImplementation"]>>
          \o networkConfig.supportedWallets
          \o Addresses(SwapNames) \o Addresses(LendingNames)
     [] OTHER -> <<>>)

\* a deployContract that ignores contractAddress
Exists_never(contractAddress) == FALSE

\* if (contractAddress)
Exists(contractAddress) == Truthy(contractAddress)

InDeployContracts ==
  /\ pc = "deployContracts"
  /\ idx \in DOMAIN DeployOrder

\* !networkConfig.<protocol> ? undefined : ...
deployContracts_skip ==
  /\ InDeployContracts
  /\ ~Configured(DeployOrder[idx])
  /\ idx' = idx + 1
  /\ UNCHANGED <<inputVars, pc, stack, failed, deployedContracts, result, summary,
                 chainVars, pending, localVars, step, emitted, populated, deployVars>>

\* deployContract, contract already exists: factory.attach(contractAddress)
deployContract_attach ==
  /\ InDeployContracts
  /\ Configured(DeployOrder[idx])
  /\ LET name == DeployOrder[idx]
         contractAddress == existingContract[ExistingKey(name)]
     IN /\ Exists(contractAddress)
        /\ deployedContracts' = [deployedContracts EXCEPT ![name] = contractAddress]
        /\ origin' = [origin EXCEPT ![name] = "attached"]
  /\ idx' = idx + 1
  /\ step' = "deployContract"
  /\ emitted' = <<>>
  /\ populated' = 0
  /\ UNCHANGED <<inputVars, pc, stack, failed, result, summary, chainVars, pending,
                 localVars, deployTxs, verified, verifyLog>>

\* deployContract: const contract = await factory.deploy(...args)
deployContract_deploy ==
  /\ InDeployContracts
  /\ Configured(DeployOrder[idx])
  /\ LET name == DeployOrder[idx]
         contractAddress == existingContract[ExistingKey(name)]
         tx == [Txn("deploy", name, "constructor", CtorArgs(name), TRUE)
                  EXCEPT !.via = "signer", !.n = 1]
     IN /\ ~Exists(contractAddress)
        /\ pending' = pending \cup {tx}
        /\ emitted' = <<tx>>
        /\ deployTxs' = [deployTxs EXCEPT ![name] = @ + 1]
  /\ pc' = "deployed"
  /\ step' = "deployContract"
  /\ populated' = 0
  /\ UNCHANGED <<inputVars, stack, idx, failed, deployedContracts, result, summary,
                 chainVars, localVars, origin, verified, verifyLog>>

\* await contract.deployed(); await printInfo(tx.deployTransaction): the new
\* instance is on chain, its slots are whatever its constructor made them
deployContract_deployed ==
  /\ pc = "deployed"
  /\ LET name == DeployOrder[idx] IN
       /\ pending' = pending \ {emitted[Len(emitted)]}
       /\ deployedContracts' =
            [deployedContracts EXCEPT ![name] = Addr(<<name, run>>, "checksum")]
       /\ origin' = [origin EXCEPT ![name] = "deployed"]
       /\ known' = known \ SlotsOf(name)
  /\ IF networkConfig.autoVerifyContract
     THEN pc' = "verify" /\ idx' = idx
     ELSE pc' = "deployContracts" /\ idx' = idx + 1
  /\ UNCHANGED <<inputVars, stack, failed, result, summary, sets, vals,
                 localVars, step, emitted, populated, deployTxs, verified, verifyLog>>

\* the verification without its try / catch
deployContract_verify_uncaught ==
  /\ pc = "verify"
  /\ verified' = [verified EXCEPT ![DeployOrder[idx]] = @ + 1]
  /\ \E ok \in BOOLEAN :
       IF ok
       THEN verifyLog' = "done verifying" /\ pc' = "deployContracts"
            /\ idx' = idx + 1 /\ failed' = failed
       ELSE verifyLog' = verifyLog /\ pc' = "failed" /\ idx' = idx /\ failed' = TRUE
  /\ UNCHANGED <<inputVars, stack, deployedContracts, result, summary,
                 chainVars, pending, localVars, step, emitted, populated,
                 origin, deployTxs>>

\* try { await run('verify:verify', ...) } catch (e) { log(...) }; return contract
deployContract_verify ==
  /\ pc = "verify"
  /\ verified' = [verified EXCEPT ![DeployOrder[idx]] = @ + 1]
  /\ \E ok \in BOOLEAN :
       verifyLog' = IF ok THEN "done verifying" ELSE "failed to verify contract"
  /\ pc' = "deployContracts"
  /\ idx' = idx + 1
  /\ UNCHANGED <<inputVars, stack, failed, deployedContracts, result, summary,
                 chainVars, pending, localVars, step, emitted, populated,
                 origin, deployTxs>>

\* return {smartWalletImplementation, smartWalletProxy, ...} to deploy; idx
\* then serves the loop of updateChildContracts
deployContracts_return ==
  /\ pc = "deployContracts"
  /\ idx = Len(DeployOrder) + 1
  /\ pc' = "updateProxy"
  /\ idx' = 1
  /\ UNCHANGED <<inputVars, stack, failed, deployedContracts, result, summary,
                 chainVars, pending, localVars, step, emitted, populated, deployVars>>

\* ------------------------------------------------------------- chain reads
\* the values a read of a slot may return: the one fixed so far, else any
ReadVal(slot, ids) == IF slot \in known THEN {vals[slot]} ELSE ids

ReadSet(slot, ids) == IF slot \in known THEN {sets[slot]} ELSE SUBSET ids

GotVal(slot, v) ==
  /\ vals' = [vals EXCEPT ![slot] = v]
  /\ known' = known \cup {slot}
  /\ sets' = sets

GotSet(slot, S) ==
  /\ sets' = [sets EXCEPT ![slot] = S]
  /\ known' = known \cup {slot}
  /\ vals' = vals

\* the locals of the step before are gone when a step begins
NoSetLocals ==
  /\ existing' = <<>>
  /\ config' = <<>>
  /\ toBeRemoved' = <<>>
  /\ toBeAdded' = <<>>
  /\ populateFunc' = NoPopulate
  /\ onChain' = {}

NoValueLocals ==
  /\ current' = UndefinedAddr
  /\ desired' = UndefinedAddr

\* ---------------------------------------------------------------- set steps
\* a diff that never removes
ToBeRemoved_never(existingList, configList) == <<>>

\* existing.filter((add) => !config.includes(add))
ToBeRemoved(existingList, configList) ==
  SelectSeq(existingList, LAMBDA add : ~Includes(configList, add))

\* config.filter((add) => !existing.includes(add))
ToBeAdded(existingList, configList) ==
  SelectSeq(configList, LAMBDA add : ~Includes(existingList, add))

\* read the set, diff it against the configured list, call updateAddressSet
AddressSetStep(label, slot, ids, to, method, configList, next) ==
  /\ pc = label
  /\ \E S \in ReadSet(slot, ids) :
       /\ GotSet(slot, S)
       /\ onChain' = S
       /\ existing' = MapLower(SetToSeq(S))
  /\ config' = MapLower(configList)
  /\ toBeRemoved' = ToBeRemoved(existing', config')
  /\ toBeAdded' = ToBeAdded(existing', config')
  /\ populateFunc' = [to |-> to, method |-> method]
  /\ pc' = "updateAddressSet"
  /\ stack' = <<next>> \o stack
  /\ NoValueLocals
  /\ step' = label
  /\ emitted' = <<>>
  /\ populated' = 0
  /\ UNCHANGED <<inputVars, idx, failed, deployedContracts, result, summary,
                 pending, deployVars>>

\* if (!contract || !networkConfig.<protocol>) return
NotSupported(label, name, next) ==
  /\ pc = label
  /\ ~Truthy(deployedContracts[name]) \/ name \notin networkConfig.protocols
  /\ pc' = next
  /\ step' = "not supported"
  /\ emitted' = <<>>
  /\ populated' = 0
  /\ NoSetLocals
  /\ NoValueLocals
  /\ UNCHANGED <<inputVars, stack, idx, failed, deployedContracts, result, summary,
                 chainVars, pending, deployVars>>

Supported(name) == Truthy(deployedContracts[name]) /\ name \in networkConfig.protocols

StaleId == <<"stale", 0>>

updateProxy_wallets ==
  AddressSetStep("updateProxy.wallets", "wallets", AddrIds, "smartWalletProxy",
                 "updateSupportedPlatformWallets", networkConfig.supportedWallets,
                 "updateProxy.swaps")

updateProxy_swaps ==
  AddressSetStep("updateProxy.swaps", "swaps", Ids(Addresses(SwapNames)) \cup {StaleId},
                 "smartWalletProxy", "updateSupportedSwaps", Addresses(SwapNames),
                 "updateProxy.lendings")

updateProxy_lendings ==
  AddressSetStep("updateProxy.lendings", "lendings",
                 Ids(Addresses(LendingNames)) \cup {StaleId},
                 "smartWalletProxy", "updateSupportedLendings", Addresses(LendingNames),
                 "updateChildContracts")

updateUniSwap ==
  \/ NotSupported("updateUniSwap", "uniSwap", "updateUniSwapV3")
  \/ /\ Supported("uniSwap")
     /\ AddressSetStep("updateUniSwap", "uniRouters", AddrIds, "uniSwap",
                       "updateUniRouters", networkConfig.uniswapRouters, "updateUniSwapV3")

updateUniSwapV3 ==
  \/ NotSupported("updateUniSwapV3", "uniSwapV3", "updateKyberProxy")
  \/ /\ Supported("uniSwapV3")
     /\ AddressSetStep("updateUniSwapV3", "uniV3Routers", AddrIds, "uniSwapV3",
                       "updateUniRouters", networkConfig.uniswapV3Routers,
                       "updateKyberProxy")

PopulateSet(list, flag) ==
  Txn("update", populateFunc.to, populateFunc.method, list, flag)

\* updateAddressSet: if (toBeRemoved.length) { populateFunc(toBeRemoved, false) }
updateAddressSet_remove ==
  /\ pc = "updateAddressSet"
  /\ IF Len(toBeRemoved) # 0
     THEN Submit(emitted, populated, PopulateSet(toBeRemoved, FALSE),
                 <<"updateAddressSet.add">> \o stack)
     ELSE NoSubmit(emitted, populated, "updateAddressSet.add", stack)
  /\ UNCHANGED <<inputVars, idx, failed, deployedContracts, result, summary,
                 chainVars, localVars, step, deployVars>>

\* updateAddressSet: if (toBeAdded.length) { populateFunc(toBeAdded, true) }
updateAddressSet_add ==
  /\ pc = "updateAddressSet.add"
  /\ IF Len(toBeAdded) # 0
     THEN Submit(emitted, populated, PopulateSet(toBeAdded, TRUE), stack)
     ELSE NoSubmit(emitted, populated, Head(stack), Tail(stack))
  /\ UNCHANGED <<inputVars, idx, failed, deployedContracts, result, summary,
                 chainVars, localVars, step, deployVars>>

\* -------------------------------------------------------------- value steps
\* compoundLending.compoundData(): the hex string of the stored bytes, the
\* comptroller first
compoundData(comptroller) == Chars(toLowerCase(comptroller))

\* '0x' + compoundData.slice(2, 40)
currentComptroller(data) == <<"0", "x">> \o Slice(data, SliceStart, SliceEnd)

\* the comparison by which a step finds the value it read up to date
UpToDate(label, cur, want) ==
  CASE label = "updateProxy" -> cur = want
    [] label = "updateCompoundLending" ->
         currentComptroller(compoundData(cur)) = Chars(want)
    [] OTHER -> toLowerCase(cur) = toLowerCase(want)

\* read a value, compare it with the wanted one as the step compares them,
\* send the update unless they compare equal
ValueStep(label, slot, ids, txn, want, next) ==
  /\ pc = label
  /\ \E v \in ReadVal(slot, ids) :
       /\ GotVal(slot, v)
       /\ current' = Addr(v, "checksum")
  /\ desired' = want
  /\ IF UpToDate(label, current', want)
     THEN NoSubmit(<<>>, 0, next, <<>>)
     ELSE Submit(<<>>, 0, txn, <<next>>)
  /\ NoSetLocals
  /\ step' = label
  /\ UNCHANGED <<inputVars, failed, deployedContracts, result, summary, deployVars>>

\* updateProxy: currentImpl === smartWalletImplementation.address
updateProxy_impl ==
  LET impl == deployedContracts["smartWalletImplementation"] IN
    /\ ValueStep("updateProxy", "implementation", {impl.id, OtherId},
                 Txn("update", "smartWalletProxy", "updateNewImplementation", <<impl>>, TRUE),
                 impl, "updateProxy.wallets")
    /\ idx' = idx

\* updateChildContracts: for (let contractName in merged)
updateChildContracts ==
  /\ pc = "updateChildContracts"
  /\ idx \in DOMAIN Merged
  /\ LET contractName == Merged[idx]
         contract == deployedContracts[contractName]
         proxy == deployedContracts["smartWalletProxy"]
     IN IF ~Truthy(contract)
        THEN /\ NoSubmit(<<>>, 0, "updateChildContracts", <<>>)
             /\ step' = "not supported"
             /\ NoSetLocals
             /\ NoValueLocals
             /\ UNCHANGED <<inputVars, failed, deployedContracts, result, summary,
                            chainVars, deployVars>>
        ELSE ValueStep("updateChildContracts", "proxyContract." \o contractName,
                       {proxy.id, zeroAddress.id},
                       Txn("update", contractName, "updateProxyContract", <<proxy>>, TRUE),
                       proxy, "updateChildContracts")
  /\ idx' = idx + 1

updateChildContracts_return ==
  /\ pc = "updateChildContracts"
  /\ idx = Len(Merged) + 1
  /\ pc' = "updateUniSwap"
  /\ UNCHANGED <<inputVars, stack, idx, failed, deployedContracts, result, summary,
                 chainVars, pending, localVars, step, emitted, populated, deployVars>>

updateKyberProxy ==
  \/ NotSupported("updateKyberProxy", "kyberProxy", "updateKyberDmm")
  \/ /\ Supported("kyberProxy")
     /\ ValueStep("updateKyberProxy", "kyberProxy",
                  {networkConfig.kyberProxyProxy.id, OtherId},
                  Txn("update", "kyberProxy", "updateKyberProxy",
                      <<networkConfig.kyberProxyProxy>>, TRUE),
                  networkConfig.kyberProxyProxy, "updateKyberDmm")
     /\ idx' = idx

updateKyberDmm ==
  \/ NotSupported("updateKyberDmm", "kyberDmm", "updateCompoundLending")
  \/ /\ Supported("kyberDmm")
     /\ ValueStep("updateKyberDmm", "dmmRouter",
                  {networkConfig.kyberDmmRouter.id, OtherId},
                  Txn("update", "kyberDmm", "updateDmmRouter",
                      <<networkConfig.kyberDmmRouter>>, TRUE),
                  networkConfig.kyberDmmRouter, "updateCompoundLending")
     /\ idx' = idx

updateCompoundLending ==
  \/ NotSupported("updateCompoundLending", "compoundLending", "updateAaveV1Lending")
  \/ /\ Supported("compoundLending")
     /\ ValueStep("updateCompoundLending", "comptroller",
                  {networkConfig.compTroller.id, OtherId},
                  Txn("update", "compoundLending", "updateCompoundData",
                      <<networkConfig.compTroller>>, TRUE),
                  networkConfig.compTroller, "updateAaveV1Lending")
     /\ idx' = idx

\* the pool / provider data the network configuration holds for an Aave market
aaveConfig(name) == Addr(<<"config." \o name, 0>>, "checksum")

\* updateAaveV1Lending, updateAaveV2Lending: populate updateAaveData and send it
AaveStep(label, name, next) ==
  /\ pc = label
  /\ Submit(<<>>, 0, Txn("update", name, "updateAaveData", <<aaveConfig(name)>>, TRUE),
            <<next>>)
  /\ current' = UndefinedAddr
  /\ desired' = aaveConfig(name)
  /\ NoSetLocals
  /\ step' = label
  /\ UNCHANGED <<inputVars, idx, failed, deployedContracts, result, summary, chainVars,
                 deployVars>>

updateAaveV1Lending ==
  \/ NotSupported("updateAaveV1Lending", "aaveV1", "updateAaveV2Lending")
  \/ /\ Supported("aaveV1")
     /\ AaveStep("updateAaveV1Lending", "aaveV1", "updateAaveV2Lending")

\* deploy calls updateAaveV2Lending twice: for aaveV2, then for aaveAMM
updateAaveV2Lending ==
  \/ NotSupported("updateAaveV2Lending", "aaveV2", "updateAaveAMM")
  \/ /\ Supported("aaveV2")
     /\ AaveStep("updateAaveV2Lending", "aaveV2", "updateAaveAMM")
  \/ NotSupported("updateAaveAMM", "aaveAMM", "summary")
  \/ /\ Supported("aaveAMM")
     /\ AaveStep("updateAaveAMM", "aaveAMM", "summary")

\* log(convertToAddressObject(deployedContracts)); return deployedContracts
deploy_return ==
  /\ pc = "summary"
  /\ summary' = convertToAddressObject(deployedContracts)
  /\ result' = <<deployedContracts>>
  /\ pc' = "done"
  /\ UNCHANGED <<inputVars, stack, idx, failed, deployedContracts, chainVars, pending,
                 localVars, step, emitted, populated, deployVars>>

\* the positions at which deploy is inside a call that can throw (a contract
\* call, a transaction submission or the wait for a confirmation)
CanThrow ==
  \/ InDeployContracts /\ Configured(DeployOrder[idx])
  \/ pc \in {"deployed", "printInfo", "updateProxy", "updateProxy.wallets",
             "updateProxy.swaps", "updateProxy.lendings"}
  \/ pc = "updateAddressSet" /\ Len(toBeRemoved) # 0
  \/ pc = "updateAddressSet.add" /\ Len(toBeAdded) # 0
  \/ pc = "updateChildContracts" /\ idx \in DOMAIN Merged
       /\ Truthy(deployedContracts[Merged[idx]])
  \/ pc = "updateUniSwap" /\ Supported("uniSwap")
  \/ pc = "updateUniSwapV3" /\ Supported("uniSwapV3")
  \/ pc = "updateKyberProxy" /\ Supported("kyberProxy")
  \/ pc = "updateKyberDmm" /\ Supported("kyberDmm")
  \/ pc = "updateCompoundLending" /\ Supported("compoundLending")
  \/ pc = "updateAaveV1Lending" /\ Supported("aaveV1")
  \/ pc = "updateAaveV2Lending" /\ Supported("aaveV2")
  \/ pc = "updateAaveAMM" /\ Supported("aaveAMM")

\* a rejection that is swallowed: the run goes on
Throw_caught ==
  /\ CanThrow
  /\ ~failed
  /\ failed' = TRUE
  /\ UNCHANGED <<inputVars, pc, stack, idx, deployedContracts, result, summary,
                 chainVars, pending, localVars, step, emitted, populated, deployVars>>

\* nothing in deploy catches: the rejection ends the run
Throw ==
  /\ CanThrow
  /\ failed' = TRUE
  /\ pc' = "failed"
  /\ UNCHANGED <<inputVars, stack, idx, deployedContracts, result, summary, chainVars,
                 pending, localVars, step, emitted, populated, deployVars>>

\* deploy is run again, same configuration, with the summary of the completed
\* run as existingContract
Rerun ==
  /\ pc = "done"
  /\ run < MaxRuns
  /\ run' = run + 1
  /\ existingContract' = summary
  /\ pc' = "deployContracts"
  /\ stack' = <<>>
  /\ idx' = 1
  /\ deployedContracts' = NoContracts
  /\ result' = <<>>
  /\ existing' = <<>>
  /\ config' = <<>>
  /\ toBeRemoved' = <<>>
  /\ toBeAdded' = <<>>
  /\ populateFunc' = NoPopulate
  /\ current' = UndefinedAddr
  /\ desired' = UndefinedAddr
  /\ onChain' = {}
  /\ step' = "none"
  /\ emitted' = <<>>
  /\ populated' = 0
  /\ origin' = [n \in Names |-> "none"]
  /\ deployTxs' = [n \in Names |-> 0]
  /\ verified' = [n \in Names |-> 0]
  /\ verifyLog' = "none"
  /\ UNCHANGED <<networkConfig, multisig, failed, summary, chainVars, pending>>

Next ==
  \/ deployContracts_skip
  \/ deployContract_attach
  \/ deployContract_deploy
  \/ deployContract_deployed
  \/ deployContract_verify
  \/ deployContracts_return
  \/ updateProxy_impl
  \/ updateProxy_wallets
  \/ updateProxy_swaps
  \/ updateProxy_lendings
  \/ updateAddressSet_remove
  \/ updateAddressSet_add
  \/ printInfo
  \/ updateChildContracts
  \/ updateChildContracts_return
  \/ updateUniSwap
  \/ updateUniSwapV3
  \/ updateKyberProxy
  \/ updateKyberDmm
  \/ updateCompoundLending
  \/ updateAaveV1Lending
  \/ updateAaveV2Lending
  \/ deploy_return
  \/ Throw
  \/ Rerun

Spec == Init /\ [][Next]_vars

\* ----------------------------------------------------------------- claims
SetSteps ==
  {"updateProxy.wallets", "updateProxy.swaps", "updateProxy.lendings",
   "updateUniSwap", "updateUniSwapV3"}

ValueSteps ==
  {"updateProxy", "updateChildContracts", "updateKyberProxy", "updateKyberDmm",
   "updateCompoundLending"}

\* the step named by step has run to its end (and none has begun since)
SetStepDone ==
  /\ step \in SetSteps
  /\ pc \notin {"updateAddressSet", "updateAddressSet.add", "printInfo", "failed"}

ContractIds(names) ==
  {deployedContracts[names[i]].id : i \in {j \in DOMAIN names : Truthy(deployedContracts[names[j]])}}

\* the configured set of a set step, as 20-byte values
DesiredIds(label) ==
  CASE label = "updateProxy.wallets" -> Ids(networkConfig.supportedWallets)
    [] label = "updateProxy.swaps" -> ContractIds(SwapNames)
    [] label = "updateProxy.lendings" -> ContractIds(LendingNames)
    [] label = "updateUniSwap" -> Ids(networkConfig.uniswapRouters)
    [] label = "updateUniSwapV3" -> Ids(networkConfig.uniswapV3Routers)
    [] OTHER -> {}

SlotOfStep(label) ==
  CASE label = "updateProxy.wallets" -> "wallets"
    [] label = "updateProxy.swaps" -> "swaps"
    [] label = "updateProxy.lendings" -> "lendings"
    [] label = "updateUniSwap" -> "uniRouters"
    [] label = "updateUniSwapV3" -> "uniV3Routers"

Removals == SelectSeq(emitted, LAMBDA tx : ~tx.flag)

Additions == SelectSeq(emitted, LAMBDA tx : tx.flag)

\* C1: a set step that has run to its end has sent exactly one removal call
\* carrying S \ C iff S \ C is not empty and one addition call carrying C \ S
\* iff C \ S is not empty (S the set read at its start, C the configured
\* set), and nothing at all when S = C.
C1_EmitsExactlyTheDifference ==
  SetStepDone =>
    LET S == onChain
        C == DesiredIds(step)
    IN /\ Len(emitted) = Len(Removals) + Len(Additions)
       /\ Len(Removals) = IF S \ C = {} THEN 0 ELSE 1
       /\ Len(Additions) = IF C \ S = {} THEN 0 ELSE 1
       /\ \A i \in DOMAIN Removals : Ids(Removals[i].args) = S \ C
       /\ \A i \in DOMAIN Additions : Ids(Additions[i].args) = C \ S
       /\ \A i \in DOMAIN emitted :
            emitted[i].kind = "update" /\ SetSlotOf(emitted[i]) = SlotOfStep(step)
       /\ S = C => emitted = <<>>

C1_Witness ==
  /\ SetStepDone
  /\ step = "updateUniSwap"
  /\ Len(Removals) = 1
  /\ Len(Additions) = 1
  /\ onChain \cap DesiredIds(step) # {}

\* C2: in a run of deploy that follows a completed run, with the summary of
\* that run as existingContract and the configuration unchanged, no update
\* transaction is submitted.
C2_RerunSubmitsNothing ==
  run > 1 => \A tx \in pending : tx.kind # "update"

\* C3: when a set step has run to its end, the set on chain is the configured
\* set, whatever the set was before.
C3_SetEqualsConfigured ==
  SetStepDone => sets[SlotOfStep(step)] = DesiredIds(step)

C3_Witness ==
  /\ SetStepDone
  /\ step = "updateProxy.wallets"
  /\ onChain \ DesiredIds(step) # {}
  /\ DesiredIds(step) \ onChain # {}
  /\ onChain \cap DesiredIds(step) # {}

\* C4: a transaction is submitted only when no transaction is pending, one at
\* a time; so at most one transaction is ever submitted and not yet confirmed.
C4_OneTransactionAtATime ==
  [][\/ pending' \subseteq pending
     \/ pending = {} /\ Cardinality(pending') = 1]_vars

\* the removal of a set step is confirmed and its addition is pending
C4_Witness ==
  /\ Len(emitted) = 2
  /\ ~emitted[1].flag
  /\ pending = {emitted[2]}

\* C5: once a call has thrown, deploy returns no record, the run does not go
\* on, and no transaction is submitted or re-submitted.
C5_ErrorsAreFatal ==
  [][failed =>
       /\ result = <<>>
       /\ pc = "failed"
       /\ UNCHANGED <<failed, result, pc, pending, emitted, populated, deployTxs, run>>]_vars

C5_Witness ==
  /\ failed
  /\ pending # {}
  /\ step = "updateProxy.wallets"

\* C6: a verification is attempted at most once per contract, only for a
\* contract this run deployed and only when autoVerifyContract is set; whatever
\* its outcome, deployContract returns the new contract and deployContracts
\* goes on with the next contract.
C6_VerificationNeverAborts ==
  [][/\ \A n \in Names :
          /\ verified'[n] <= 1
          /\ verified'[n] = 1 =>
               networkConfig.autoVerifyContract /\ origin'[n] = "deployed"
     /\ pc = "verify" =>
          /\ pc' = "deployContracts"
          /\ idx' = idx + 1
          /\ ~failed'
          /\ deployedContracts'[DeployOrder[idx]] = Addr(<<DeployOrder[idx], run>>, "checksum")]_vars

C6_Witness ==
  /\ pc = "done"
  /\ verifyLog = "failed to verify contract"
  /\ \E n \in Names : origin[n] = "attached" /\ verified[n] = 0

Index(name) == CHOOSE i \in DOMAIN DeployOrder : DeployOrder[i] = name

\* deployContracts has made its deployContract call for the contract, which
\* has returned
Returned(name) ==
  /\ Configured(name)
  /\ pc # "failed"
  /\ pc \in {"deployContracts", "deployed", "verify"} => idx > Index(name)

\* the contractAddress deployContract is given for the contract
Supplied(name) == existingContract[ExistingKey(name)]

\* C7: deployContract submits a deployment iff it is given no address: given
\* one it attaches to it and submits nothing, given none it deploys exactly
\* one new instance.
C7_DeployIfMissing ==
  \A n \in Names :
    /\ deployTxs[n] <= 1
    /\ deployTxs[n] = 1 => Configured(n) /\ ~Truthy(Supplied(n))
    /\ Returned(n) =>
         IF Truthy(Supplied(n))
         THEN /\ origin[n] = "attached"
              /\ deployTxs[n] = 0
              /\ deployedContracts[n] = Supplied(n)
         ELSE /\ origin[n] = "deployed"
              /\ deployTxs[n] = 1
              /\ deployedContracts[n] = Addr(<<n, run>>, "checksum")

C7_Witness ==
  /\ pc = "updateProxy"
  /\ origin["smartWalletImplementation"] = "attached"
  /\ origin["smartWalletProxy"] = "deployed"
  /\ origin["uniSwap"] = "deployed"

\* C8: a step that sets a single value (the proxy's implementation, a child's
\* proxy, the KyberProxy proxy, the KyberDmm router, the Compound comptroller)
\* submits its update iff the value on chain differs from the configured one.
C8_SubmitsIffDifferent ==
  step \in ValueSteps => (emitted # <<>> <=> current.id # desired.id)

\* C9: every update transaction goes through the Safe when multisig is set
\* and is sent by the signer when it is not, and a step has sent exactly one
\* transaction for each transaction it populated.
C9_ThroughMultisigIffConfigured ==
  LET updates == SelectSeq(emitted, LAMBDA tx : tx.kind = "update") IN
    /\ \A i \in DOMAIN updates :
         updates[i].via = IF Truthy(multisig) THEN "safe" ELSE "signer"
    /\ Len(updates) = populated
    /\ \A tx \in pending : \E i \in DOMAIN emitted : emitted[i] = tx

C9_Witness ==
  /\ Truthy(multisig)
  /\ \E tx \in pending : tx.method = "updateSupportedPlatformWallets" /\ tx.via = "safe"

\* C10: a run of deploy whose existingContract is the summary of a completed
\* run deploys nothing: every contract of the summary is attached at its
\* recorded address.
C10_RerunDeploysNothing ==
  run > 1 =>
    \A n \in Names :
      /\ deployTxs[n] = 0
      /\ Returned(n) /\ Truthy(summary[SummaryKey(n)]) =>
           deployedContracts[n] = summary[SummaryKey(n)]

\* the addresses an adapter of the protocol may have: the one existingContract
\* supplies or the one a run deploys
ProtocolIds(name) == {<<name, k>> : k \in 0..MaxRuns}

Sent == pending \cup {emitted[i] : i \in DOMAIN emitted}

\* C11: a protocol with no entry in the network configuration is left
\* untouched: its adapter is neither deployed nor attached nor verified, no
\* transaction is sent to it, no address of it is among the arguments of a
\* transaction to the proxy (its constructor included) nor in the desired set
\* of a set step, and none of its slots on chain is ever read or written.
C11_UnconfiguredUntouched ==
  \A n \in Protocols \ networkConfig.protocols :
    /\ deployedContracts[n] = UndefinedAddr
    /\ origin[n] = "none"
    /\ deployTxs[n] = 0
    /\ verified[n] = 0
    /\ \A tx \in Sent :
         /\ tx.to # n
         /\ Ids(tx.args) \cap ProtocolIds(n) = {}
    /\ Ids(config) \cap ProtocolIds(n) = {}
    /\ Ids(toBeAdded) \cap ProtocolIds(n) = {}
    /\ SlotsOf(n) \cap known = {}

\* a run has completed with one protocol configured while existingContract
\* names an adapter of a protocol that is not
C11_Witness ==
  /\ pc = "done"
  /\ networkConfig.protocols # {}
  /\ origin["smartWalletProxy"] = "deployed"
  /\ \E n \in Protocols \ networkConfig.protocols : Truthy(Supplied(n))

\* where deploy is: inside updateAddressSet or printInfo, the step that called
Position ==
  IF pc \in {"updateAddressSet", "updateAddressSet.add", "printInfo"} THEN step ELSE pc

\* the part of deploy a position belongs to: deployContracts, updateProxy,
\* updateChildContracts, the per-protocol updates, the summary
Phase(label) ==
  CASE label \in {"deployContracts", "deployed", "verify"} -> 0
    [] label \in {"updateProxy", "updateProxy.wallets", "updateProxy.swaps",
                  "updateProxy.lendings"} -> 1
    [] label = "updateChildContracts" -> 2
    [] label \in {"updateUniSwap", "updateUniSwapV3", "updateKyberProxy",
                  "updateKyberDmm", "updateCompoundLending", "updateAaveV1Lending",
                  "updateAaveV2Lending", "updateAaveAMM"} -> 3
    [] OTHER -> 4

\* the part of deploy a transaction belongs to, by the method it calls
PhaseOfTxn(tx) ==
  CASE tx.kind = "deploy" -> 0
    [] tx.method \in {"updateNewImplementation", "updateSupportedPlatformWallets",
                      "updateSupportedSwaps", "updateSupportedLendings"} -> 1
    [] tx.method = "updateProxyContract" -> 2
    [] OTHER -> 3

\* the contracts deployContracts has to deploy or attach before the proxy
BeforeProxy == {n \in Names \ {"smartWalletProxy"} : Configured(n)}

\* the addresses of the configured adapters among names, in their order
ConfiguredAddresses(names) ==
  LET sel == SelectSeq(names, LAMBDA n : n \in networkConfig.protocols)
  IN [i \in DOMAIN sel |-> deployedContracts[sel[i]]]

\* C12: the proxy is deployed or attached only after the implementation and
\* every configured adapter has been deployed or attached; the constructor of
\* a freshly deployed proxy receives the admin, the implementation, the
\* wallets and exactly the addresses of the configured swap and lending
\* adapters; an update transaction is submitted only once every configured
\* contract, the proxy included, is deployed or attached; and a run goes from
\* updateProxy to updateChildContracts to the per-protocol updates, never
\* back, each update transaction being submitted in the part it belongs to.
C12_OrderOfRun ==
  [][/\ (origin'["smartWalletProxy"] # "none" \/ deployTxs'["smartWalletProxy"] > 0) =>
          \A n \in BeforeProxy : origin'[n] # "none" /\ Truthy(deployedContracts'[n])
     /\ \A tx \in pending' \ pending :
          /\ tx.kind = "deploy" /\ tx.to = "smartWalletProxy" =>
               /\ tx.args = <<contractAdmin, deployedContracts["smartWalletImplementation"]>>
                               \o networkConfig.supportedWallets
                               \o ConfiguredAddresses(SwapNames)
                               \o ConfiguredAddresses(LendingNames)
               /\ \A i \in DOMAIN tx.args : Truthy(tx.args[i])
          /\ tx.kind = "update" =>
               /\ \A n \in BeforeProxy \cup {"smartWalletProxy"} : origin[n] # "none"
               /\ PhaseOfTxn(tx) = Phase(Position')
          /\ tx.kind = "deploy" => Phase(Position') = 0
     /\ (run' = run /\ pc' # "failed") => Phase(Position') >= Phase(Position)]_vars

\* every protocol is configured, one adapter was attached, the proxy was
\* deployed by this run, and the update of a per-protocol step is pending
C12_Witness ==
  /\ networkConfig.protocols = Protocols
  /\ origin["smartWalletProxy"] = "deployed"
  /\ origin["uniSwap"] = "attached"
  /\ pc = "printInfo"
  /\ step = "updateKyberDmm"
  /\ \E tx \in pending : tx.method = "updateDmmRouter"

====
